---- MODULE Spec2Model ----
(***************************************************************************)
(* Model of util/parse.py: the two CSV parsers, invert_mapping and the     *)
(* parse_package_details generator.                                        *)
(*                                                                         *)
(* Text is a sequence of one-character strings.  Python's None is the      *)
(* value NoneVal.  A Python dict is a function; a Python set is a set; a   *)
(* Python list is a sequence.                                              *)
(***************************************************************************)
EXTENDS Integers, Sequences, FiniteSets, TLC

(***************************************************************************)
(* Bounds of the checked inputs.                                           *)
(***************************************************************************)
MaxRows == 3
MaxRepos == 2
MaxEntries == 3

(***************************************************************************)
(* Text constants.                                                         *)
(***************************************************************************)
NoneVal == <<"None">>
EOL == "EOL"
S_package == <<"p", "a", "c", "k", "a", "g", "e">>
S_all_repos == <<"a", "l", "l", "_", "r", "e", "p", "o", "s">>
S_extra == <<"x">>
P1 == <<"p", "1">>
P2 == <<"p", "2">>
R1 == <<"r", "1">>
R2 == <<"r", "2">>
Pkgs == {P1, P2}
Repos == {R1, R2}

RECURSIVE Join(_, _)
Join(parts, sep) ==
    IF parts = <<>> THEN <<>>
    ELSE IF Len(parts) = 1 THEN parts[1]
    ELSE parts[1] \o sep \o Join(Tail(parts), sep)

SeqsUpTo(S, n) == UNION {[1..k -> S] : k \in 0..n}

(***************************************************************************)
(* csv.reader with the default dialect (delimiter ',', quotechar '"',      *)
(* doublequote, not strict), fed the lines of a text stream.               *)
(***************************************************************************)
RECURSIVE FeedLines(_)
FeedLines(text) ==
    IF text = <<>> THEN <<>>
    ELSE IF Head(text) = "\n" THEN <<"\n", EOL>> \o FeedLines(Tail(text))
    ELSE IF Len(text) = 1 THEN <<Head(text), EOL>>
    ELSE <<Head(text)>> \o FeedLines(Tail(text))

ReaderStart == [state |-> "START_RECORD", field |-> <<>>, fields |-> <<>>]

parse_save_field(st) ==
    [st EXCEPT !.fields = Append(st.fields, st.field), !.field = <<>>]

parse_add_char(st, c) == [st EXCEPT !.field = Append(st.field, c)]

parse_process_char(st, c) ==
    LET ends == c \in {"\n", EOL}
        after == IF c = EOL THEN "START_RECORD" ELSE "EAT_CRNL"
    IN  CASE st.state = "START_RECORD" /\ c = EOL -> st
          [] st.state = "START_RECORD" /\ c = "\n" ->
                [st EXCEPT !.state = "EAT_CRNL"]
          [] st.state \in {"START_RECORD", "START_FIELD"} /\ ~ends ->
                IF c = "\"" THEN [st EXCEPT !.state = "IN_QUOTED_FIELD"]
                ELSE IF c = "," THEN
                    [parse_save_field(st) EXCEPT !.state = "START_FIELD"]
                ELSE [parse_add_char(st, c) EXCEPT !.state = "IN_FIELD"]
          [] st.state = "START_FIELD" /\ ends ->
                [parse_save_field(st) EXCEPT !.state = after]
          [] st.state = "IN_FIELD" ->
                IF ends THEN [parse_save_field(st) EXCEPT !.state = after]
                ELSE IF c = "," THEN
                    [parse_save_field(st) EXCEPT !.state = "START_FIELD"]
                ELSE parse_add_char(st, c)
          [] st.state = "IN_QUOTED_FIELD" ->
                IF c = EOL THEN st
                ELSE IF c = "\"" THEN
                    [st EXCEPT !.state = "QUOTE_IN_QUOTED_FIELD"]
                ELSE parse_add_char(st, c)
          [] st.state = "QUOTE_IN_QUOTED_FIELD" ->
                IF c = "\"" THEN
                    [parse_add_char(st, c) EXCEPT !.state = "IN_QUOTED_FIELD"]
                ELSE IF c = "," THEN
                    [parse_save_field(st) EXCEPT !.state = "START_FIELD"]
                ELSE IF ends THEN
                    [parse_save_field(st) EXCEPT !.state = after]
                ELSE [parse_add_char(st, c) EXCEPT !.state = "IN_FIELD"]
          [] st.state = "EAT_CRNL" ->
                IF c = EOL THEN [st EXCEPT !.state = "START_RECORD"]
                ELSE st

RECURSIVE reader_rows(_, _, _)
reader_rows(input, st, rows) ==
    IF input = <<>> THEN
        IF st.field # <<>> \/ st.state = "IN_QUOTED_FIELD"
        THEN Append(rows, parse_save_field(st).fields)
        ELSE rows
    ELSE
        LET n == parse_process_char(st, Head(input))
        IN  IF Head(input) = EOL /\ n.state = "START_RECORD"
            THEN reader_rows(Tail(input), ReaderStart, Append(rows, n.fields))
            ELSE reader_rows(Tail(input), n, rows)

csv_reader(input_file) == reader_rows(FeedLines(input_file), ReaderStart, <<>>)

(***************************************************************************)
(* csv.DictReader: the first row gives the field names, blank rows are     *)
(* skipped, short rows are filled with None, the surplus of a long row     *)
(* goes under the key None.                                                *)
(***************************************************************************)
\* A row dict whose missing fields are filled with '' (restval='').
DictRow_restval_empty(fieldnames, row) ==
    LET lf == Len(fieldnames)
        lr == Len(row)
        keys == {fieldnames[i] : i \in 1..lf}
                    \cup (IF lf < lr THEN {NoneVal} ELSE {})
        LastIdx(k) == CHOOSE i \in 1..lf :
                        /\ fieldnames[i] = k
                        /\ \A j \in 1..lf : fieldnames[j] = k => j <= i
    IN  [k \in keys |->
            IF k = NoneVal THEN SubSeq(row, lf + 1, lr)
            ELSE IF LastIdx(k) > lr THEN <<>>
            ELSE row[LastIdx(k)]]

DictRow(fieldnames, row) ==
    LET lf == Len(fieldnames)
        lr == Len(row)
        keys == {fieldnames[i] : i \in 1..lf}
                    \cup (IF lf < lr THEN {NoneVal} ELSE {})
        LastIdx(k) == CHOOSE i \in 1..lf :
                        /\ fieldnames[i] = k
                        /\ \A j \in 1..lf : fieldnames[j] = k => j <= i
    IN  [k \in keys |->
            IF k = NoneVal THEN SubSeq(row, lf + 1, lr)
            ELSE IF LastIdx(k) > lr THEN NoneVal
            ELSE row[LastIdx(k)]]

csv_DictReader(input_file) ==
    LET rows == csv_reader(input_file)
        fieldnames == IF rows = <<>> THEN <<>> ELSE rows[1]
        data == IF rows = <<>> THEN <<>>
                ELSE SelectSeq(Tail(rows), LAMBDA r : r # <<>>)
    IN  [i \in 1..Len(data) |-> DictRow(fieldnames, data[i])]

(***************************************************************************)
(* str.split(',')                                                          *)
(***************************************************************************)
\* A split that leaves the string whole.
split_whole(s, sep) == <<s>>

RECURSIVE split(_, _)
split(s, sep) ==
    IF \A i \in 1..Len(s) : s[i] # sep THEN <<s>>
    ELSE LET i == CHOOSE k \in 1..Len(s) :
                    s[k] = sep /\ \A j \in 1..(k - 1) : s[j] # sep
         IN  <<SubSeq(s, 1, i - 1)>> \o split(SubSeq(s, i + 1, Len(s)), sep)

(***************************************************************************)
(* Results of a call: a returned value or a raised exception.              *)
(***************************************************************************)
Pending == [status |-> "pending", err |-> "", val |-> <<>>]
Returned(v) == [status |-> "returned", err |-> "", val |-> v]
Raised(e) == [status |-> "raised", err |-> e, val |-> <<>>]

\* A dict store that keeps the value of a key already present.
DictSet_keep_first(d, k, v) ==
    [x \in DOMAIN d \cup {k} |-> IF x \in DOMAIN d THEN d[x] ELSE v]

\* d[k] = v
DictSet(d, k, v) == [x \in DOMAIN d \cup {k} |-> IF x = k THEN v ELSE d[x]]

(***************************************************************************)
(* parse_package_to_repos_file: the dict comprehension over DictReader.    *)
(***************************************************************************)
RECURSIVE package_to_repos_comprehension(_, _, _)
package_to_repos_comprehension(rows, i, acc) ==
    IF i > Len(rows) THEN Returned(acc)
    ELSE LET row == rows[i]
         IN  IF S_package \notin DOMAIN row \/ S_all_repos \notin DOMAIN row
             THEN Raised("KeyError")
             ELSE IF row[S_all_repos] = NoneVal THEN Raised("AttributeError")
             ELSE package_to_repos_comprehension(rows, i + 1,
                    DictSet(acc, row[S_package], split(row[S_all_repos], ",")))

parse_package_to_repos_file(input_file) ==
    package_to_repos_comprehension(csv_DictReader(input_file), 1, <<>>)

(***************************************************************************)
(* result.setdefault(key, set()).add(elem), and a variant that replaces    *)
(* the set instead of adding to it.                                        *)
(***************************************************************************)
setdefault_overwrite(result, key, elem) ==
    [x \in DOMAIN result \cup {key} |-> IF x = key THEN {elem} ELSE result[x]]

setdefault_add(result, key, elem) ==
    IF key \in DOMAIN result
    THEN [result EXCEPT ![key] = @ \cup {elem}]
    ELSE DictSet(result, key, {elem})

(***************************************************************************)
(* invert_mapping                                                          *)
(***************************************************************************)
RECURSIVE invert_repos(_, _, _, _)
invert_repos(result, package, repos, i) ==
    IF i > Len(repos) THEN result
    ELSE invert_repos(setdefault_add(result, repos[i], package),
                      package, repos, i + 1)

RECURSIVE invert_items(_, _, _)
invert_items(result, packages, todo) ==
    IF todo = {} THEN result
    ELSE LET package == CHOOSE p \in todo : TRUE
         IN  invert_items(invert_repos(result, package, packages[package], 1),
                          packages, todo \ {package})

invert_mapping(packages) == invert_items(<<>>, packages, DOMAIN packages)

(***************************************************************************)
(* parse_repo_to_package_file                                              *)
(***************************************************************************)
\* A loop that reads the repository from column 0 and the package from column 1.
RECURSIVE repo_to_package_loop_swapped(_, _, _)
repo_to_package_loop_swapped(rows, i, result) ==
    IF i > Len(rows) THEN Returned(result)
    ELSE IF Len(rows[i]) < 2 THEN Raised("IndexError")
    ELSE repo_to_package_loop_swapped(rows, i + 1,
            setdefault_add(result, rows[i][1], rows[i][2]))

RECURSIVE repo_to_package_loop(_, _, _)
repo_to_package_loop(rows, i, result) ==
    IF i > Len(rows) THEN Returned(result)
    ELSE IF Len(rows[i]) < 2 THEN Raised("IndexError")
    ELSE repo_to_package_loop(rows, i + 1,
            setdefault_add(result, rows[i][2], rows[i][1]))

parse_repo_to_package_file(input_file) ==
    repo_to_package_loop(csv_reader(input_file), 1, <<>>)

(***************************************************************************)
(* Input files.  A CSV file is written from its rows: fields joined by     *)
(* ',' and lines ended by a newline; a field holding a special character   *)
(* is quoted when quoting is on.                                           *)
(***************************************************************************)
RECURSIVE DoubleQuotes(_)
DoubleQuotes(f) ==
    IF f = <<>> THEN <<>>
    ELSE (IF Head(f) = "\"" THEN <<"\"", "\"">> ELSE <<Head(f)>>)
            \o DoubleQuotes(Tail(f))

WriteField(f, quoting) ==
    IF quoting /\ \E i \in 1..Len(f) : f[i] \in {",", "\"", "\n"}
    THEN <<"\"">> \o DoubleQuotes(f) \o <<"\"">>
    ELSE f

WriteRow(row, quoting) ==
    IF quoting /\ row = << <<>> >> THEN <<"\"", "\"">>
    ELSE Join([i \in 1..Len(row) |-> WriteField(row[i], quoting)], <<",">>)

WriteLines(rows, quoting) ==
    Join([i \in 1..Len(rows) |-> WriteRow(rows[i], quoting)], <<"\n">>)

WriteFile(rows, quoting) ==
    Join([i \in 1..Len(rows) |-> WriteRow(rows[i], quoting) \o <<"\n">>], <<>>)

\* Shape of 4.1's input: one row per package, its repositories joined by ','.
RepoLists == SeqsUpTo(Repos, MaxRepos) \ {<<>>}
Listings == {l \in SeqsUpTo(Pkgs \X RepoLists, MaxRows) :
                \A i, j \in 1..Len(l) : l[i][1] = l[j][1] => i = j}
ListingRowsA(l) ==
    <<<<S_package, S_all_repos>>>>
        \o [i \in 1..Len(l) |-> <<l[i][1], Join(l[i][2], <<",">>)>>]
\* Shape of 4.4's input: one row per (package, repository) pair.
RECURSIVE ListingRowsB(_)
ListingRowsB(l) ==
    IF l = <<>> THEN <<>>
    ELSE [i \in 1..Len(l[1][2]) |-> <<l[1][1], l[1][2][i]>>]
            \o ListingRowsB(Tail(l))

Headers == {<<S_package, S_all_repos>>, <<S_all_repos, S_package>>,
            <<S_package>>, <<S_package, S_all_repos, S_extra>>, <<>>}
RepoFields == {<<>>, R1, R1 \o <<",">> \o R2, R2 \o <<",">> \o R2}
RowCands == {<<>>, <<P1>>, <<P1, R1, R2>>}
                \cup {<<p, f>> : p \in Pkgs, f \in RepoFields}
Mappings == UNION {[D -> SeqsUpTo(Repos, MaxRepos)] : D \in SUBSET Pkgs}

NoMeta == [kind |-> "none", listing |-> <<>>, quoted |-> FALSE,
           header |-> <<>>, rows |-> <<>>, packages |-> <<>>]
Inputs ==
    {[a |-> WriteLines(ListingRowsA(l), q),
      b |-> WriteLines(ListingRowsB(l), q),
      meta |-> [NoMeta EXCEPT !.kind = "listing", !.listing = l, !.quoted = q]]
        : l \in Listings, q \in BOOLEAN}
    \cup
    {[a |-> WriteFile(<<h>> \o rs, TRUE),
      b |-> WriteFile(rs, TRUE),
      meta |-> [NoMeta EXCEPT !.kind = "rows", !.header = h, !.rows = rs]]
        : h \in Headers, rs \in SeqsUpTo(RowCands, MaxRows)}
    \cup
    {[a |-> <<>>, b |-> <<>>,
      meta |-> [NoMeta EXCEPT !.kind = "mapping", !.packages = m]]
        : m \in Mappings}

(***************************************************************************)
(* json.load on the file's text.  The modelled grammar is integers,        *)
(* strings without escapes, arrays and objects, without white space.       *)
(* Parsed values are tagged: <<"int", n>>, <<"str", chars>>,               *)
(* <<"array", items>>, <<"object", pairs>>.                                *)
(***************************************************************************)
Digits == <<"0", "1", "2", "3", "4", "5", "6", "7", "8", "9">>
DigitChars == {Digits[i] : i \in 1..Len(Digits)}
DigitVal(c) == (CHOOSE i \in 1..Len(Digits) : Digits[i] = c) - 1

JsonFail == [ok |-> FALSE, val |-> <<>>, end |-> 0]
JsonOk(v, e) == [ok |-> TRUE, val |-> v, end |-> e]

RECURSIVE json_int(_, _, _)
json_int(s, i, n) ==
    IF i <= Len(s) /\ s[i] \in DigitChars
    THEN json_int(s, i + 1, 10 * n + DigitVal(s[i]))
    ELSE JsonOk(<<"int", n>>, i)

json_string(s, i) ==
    IF \E k \in (i + 1)..Len(s) : s[k] = "\""
    THEN LET k == CHOOSE k \in (i + 1)..Len(s) :
                    s[k] = "\"" /\ \A j \in (i + 1)..(k - 1) : s[j] # "\""
         IN  JsonOk(<<"str", SubSeq(s, i + 1, k - 1)>>, k + 1)
    ELSE JsonFail

RECURSIVE json_value(_, _), json_array(_, _, _), json_object(_, _, _)
json_value(s, i) ==
    IF i > Len(s) THEN JsonFail
    ELSE IF s[i] = "0" THEN JsonOk(<<"int", 0>>, i + 1)
    ELSE IF s[i] \in DigitChars THEN json_int(s, i, 0)
    ELSE IF s[i] = "\"" THEN json_string(s, i)
    ELSE IF s[i] = "[" THEN
        IF i + 1 <= Len(s) /\ s[i + 1] = "]"
        THEN JsonOk(<<"array", <<>>>>, i + 2)
        ELSE json_array(s, i + 1, <<>>)
    ELSE IF s[i] = "{" THEN
        IF i + 1 <= Len(s) /\ s[i + 1] = "}"
        THEN JsonOk(<<"object", <<>>>>, i + 2)
        ELSE json_object(s, i + 1, <<>>)
    ELSE JsonFail

json_array(s, i, acc) ==
    LET v == json_value(s, i)
    IN  IF ~v.ok \/ v.end > Len(s) THEN JsonFail
        ELSE IF s[v.end] = "," THEN json_array(s, v.end + 1, Append(acc, v.val))
        ELSE IF s[v.end] = "]"
             THEN JsonOk(<<"array", Append(acc, v.val)>>, v.end + 1)
        ELSE JsonFail

json_object(s, i, acc) ==
    IF i > Len(s) \/ s[i] # "\"" THEN JsonFail
    ELSE
    LET k == json_string(s, i)
    IN  IF ~k.ok \/ k.end > Len(s) \/ s[k.end] # ":" THEN JsonFail
        ELSE
        LET v == json_value(s, k.end + 1)
            pairs == SelectSeq(acc, LAMBDA kv : kv[1] # k.val) \o <<<<k.val, v.val>>>>
        IN  IF ~v.ok \/ v.end > Len(s) THEN JsonFail
            ELSE IF s[v.end] = "," THEN json_object(s, v.end + 1, pairs)
            ELSE IF s[v.end] = "}"
                 THEN JsonOk(<<"object", pairs>>, v.end + 1)
            ELSE JsonFail

json_load(s) ==
    LET v == json_value(s, 1)
    IN  IF v.ok /\ v.end = Len(s) + 1 THEN [ok |-> TRUE, val |-> v.val]
        ELSE [ok |-> FALSE, val |-> <<>>]

(***************************************************************************)
(* The file system seen by parse_package_details: the directory is         *)
(* accessible ("ok"), absent ("missing") or unreadable ("denied"); its     *)
(* entries are listed in enumeration order.  An entry's kind is what       *)
(* os.path.isfile sees: "file", "dir" or "special".                        *)
(***************************************************************************)
DetailsDir == <<"d">>
DotJson == <<".", "j", "s", "o", "n">>
N_a_json == <<"a">> \o DotJson
N_b_json == <<"b">> \o DotJson
N_c_json == <<"c">> \o DotJson
N_hidden_json == <<".", "h">> \o DotJson
N_a_txt == <<"a", ".", "t", "x", "t">>
Names == {N_a_json, N_b_json, N_c_json, N_hidden_json, N_a_txt}
C_object == <<"{", "\"", "x", "\"", ":", "1", "}">>
C_array == <<"[", "1", ",", "2", ",", "3", "]">>
C_invalid == <<"{", "i", "n", "v", "a", "l", "i", "d", "}">>
Contents == {C_object, C_array, C_invalid}
EntryCands ==
    {[name |-> n, kind |-> "file", content |-> c] : n \in Names, c \in Contents}
    \cup {[name |-> n, kind |-> k, content |-> <<>>] :
            n \in Names, k \in {"dir", "special"}}
Directories == {d \in SeqsUpTo(EntryCands, MaxEntries) :
                    \A i, j \in 1..Len(d) : d[i].name = d[j].name => i = j}

VARIABLES csvA, csvB, meta, resA, resB, invArg, resInv,
          fsStatus, entries, genState, idx, openFiles, opened, delivered,
          last, stopped

csvVars == <<csvA, csvB, meta, resA, resB, invArg, resInv>>
fsVars == <<fsStatus, entries>>
genVars == <<genState, idx, openFiles, opened, delivered, last, stopped>>
vars == <<csvVars, fsVars, genVars>>

\* os.scandir(dirname): the names of the entries, or an OSError.
os_scandir(dirname) ==
    IF dirname # DetailsDir \/ fsStatus = "missing"
    THEN [raised |-> "FileNotFoundError", names |-> <<>>]
    ELSE IF fsStatus = "denied"
    THEN [raised |-> "PermissionError", names |-> <<>>]
    ELSE [raised |-> "", names |-> [i \in 1..Len(entries) |-> entries[i].name]]

\* A directory listing that lets the OSError of os.scandir through.
glob_listdir_propagate(dirname) == os_scandir(dirname)

\* glob._listdir: "except OSError: return" gives no names and no error.
glob_listdir(dirname) ==
    LET it == os_scandir(dirname)
    IN  IF it.raised # "" THEN [raised |-> "", names |-> <<>>] ELSE it

\* A glob that also lists the names starting with '.'.
glob_ishidden_never(name) == FALSE

\* glob._ishidden
glob_ishidden(name) == name # <<>> /\ name[1] = "."

\* fnmatch of a name against the pattern '*.json'
fnmatch_json(name) ==
    Len(name) >= Len(DotJson)
        /\ SubSeq(name, Len(name) - Len(DotJson) + 1, Len(name)) = DotJson

os_path_join(dirname, name) == dirname \o <<"/">> \o name

\* glob.iglob('{}/*.json'.format(details_dir))
glob_iglob(details_dir) ==
    LET listed == glob_listdir(details_dir)
        names == SelectSeq(listed.names,
                    LAMBDA x : ~glob_ishidden(x) /\ fnmatch_json(x))
    IN  [raised |-> listed.raised,
         paths |-> [i \in 1..Len(names) |->
                        os_path_join(details_dir, names[i])]]

Paths == glob_iglob(DetailsDir).paths

os_path_basename(path) ==
    LET seps == {i \in 1..Len(path) : path[i] = "/"}
        i == IF seps = {} THEN 0
             ELSE CHOOSE k \in seps : \A j \in seps : j <= k
    IN  SubSeq(path, i + 1, Len(path))

\* os.path.splitext(filename)[0] for a name without separators
os_path_splitext_root(p) ==
    LET dots == {i \in 1..Len(p) : p[i] = "."}
        dotIndex == IF dots = {} THEN 0
                    ELSE CHOOSE k \in dots : \A j \in dots : j <= k
    IN  IF dotIndex > 0 /\ \E f \in 1..(dotIndex - 1) : p[f] # "."
        THEN SubSeq(p, 1, dotIndex - 1)
        ELSE p

EntryAt(path) ==
    CHOOSE e \in {entries[i] : i \in 1..Len(entries)} :
        os_path_join(DetailsDir, e.name) = path

os_path_isfile(path) ==
    /\ fsStatus = "ok"
    /\ \E i \in 1..Len(entries) :
        os_path_join(DetailsDir, entries[i].name) = path
            /\ entries[i].kind = "file"

\* A loop that starts over from the first path at every resumption.
NextFile_restart(from) ==
    LET js == {j \in 1..Len(Paths) : os_path_isfile(Paths[j])}
    IN  IF js = {} THEN 0 ELSE CHOOSE j \in js : \A k \in js : j <= k

\* The for loop's next path that passes os.path.isfile, 0 when exhausted.
NextFile(from) ==
    LET js == {j \in (from + 1)..Len(Paths) : os_path_isfile(Paths[j])}
    IN  IF js = {} THEN 0 ELSE CHOOSE j \in js : \A k \in js : j <= k

CsvIdle ==
    /\ csvA = <<>> /\ csvB = <<>> /\ meta = NoMeta
    /\ resA = Pending /\ resB = Pending /\ invArg = <<>> /\ resInv = Pending

GenIdle ==
    /\ fsStatus = "ok" /\ entries = <<>>
    /\ genState = "uncalled" /\ idx = 0 /\ openFiles = {} /\ opened = <<>>
    /\ delivered = <<>> /\ last = "none" /\ stopped = FALSE



InitCsv ==
    /\ \E in \in Inputs : csvA = in.a /\ csvB = in.b /\ meta = in.meta
    /\ resA = Pending
    /\ resB = Pending
    /\ invArg = <<>>
    /\ resInv = Pending
    /\ GenIdle

ParsePackageToReposFile ==
    /\ meta.kind \in {"listing", "rows"}
    /\ resA.status = "pending"
    /\ resA' = parse_package_to_repos_file(csvA)
    /\ UNCHANGED <<csvA, csvB, meta, resB, invArg, resInv, fsVars, genVars>>

ParseRepoToPackageFile ==
    /\ meta.kind \in {"listing", "rows"}
    /\ resB.status = "pending"
    /\ resB' = parse_repo_to_package_file(csvB)
    /\ UNCHANGED <<csvA, csvB, meta, resA, invArg, resInv, fsVars, genVars>>

InvertMapping ==
    /\ resInv.status = "pending"
    /\ \E packages \in (IF meta.kind = "mapping" THEN {meta.packages} ELSE {})
                  \cup (IF resA.status = "returned" THEN {resA.val} ELSE {}) :
        /\ invArg' = packages
        /\ resInv' = Returned(invert_mapping(packages))
    /\ UNCHANGED <<csvA, csvB, meta, resA, resB, fsVars, genVars>>

NextCsv == ParsePackageToReposFile \/ ParseRepoToPackageFile \/ InvertMapping

SpecCsv == InitCsv /\ [][NextCsv]_vars
(***************************************************************************)
(* parse_package_details: a generator and its consumer.                    *)
(***************************************************************************)
Init ==
    /\ CsvIdle
    /\ fsStatus \in {"ok", "missing", "denied"}
    /\ entries \in (IF fsStatus = "missing" THEN {<<>>} ELSE Directories)
    /\ genState = "uncalled"
    /\ idx = 0
    /\ openFiles = {}
    /\ opened = <<>>
    /\ delivered = <<>>
    /\ last = "none"
    /\ stopped = FALSE

\* Calling the generator function runs none of its body.
Call ==
    /\ genState = "uncalled"
    /\ genState' = "created"
    /\ UNCHANGED <<csvVars, fsVars, idx, openFiles, opened, delivered, last,
                   stopped>>

\* A generator that goes on with its loop after an exception left it.
Resumable_after_failure(state) == state \in {"created", "suspended", "failed"}

\* A generator's frame can be resumed until it returned or raised.
Resumable(state) == state \in {"created", "suspended"}

\* next(generator): resume after the yield (leaving the with block closes
\* the file), run the loop up to the next yield, the end or an exception.
Advance ==
    /\ genState \notin {"uncalled"}
    /\ ~stopped
    /\ IF ~Resumable(genState)
       THEN /\ last' = "StopIteration"
            /\ UNCHANGED <<genState, idx, openFiles, opened, delivered>>
       ELSE IF genState = "created" /\ glob_iglob(DetailsDir).raised # ""
       THEN /\ genState' = "failed"
            /\ last' = glob_iglob(DetailsDir).raised
            /\ UNCHANGED <<idx, openFiles, opened, delivered>>
       ELSE LET resumed == IF genState = "suspended"
                           THEN openFiles \ {Paths[idx]} ELSE openFiles
                j == NextFile(idx)
            IN  IF j = 0
                THEN /\ genState' = "exhausted"
                     /\ idx' = Len(Paths)
                     /\ openFiles' = resumed
                     /\ last' = "StopIteration"
                     /\ UNCHANGED <<opened, delivered>>
                ELSE LET path == Paths[j]
                         package_name ==
                            os_path_splitext_root(os_path_basename(path))
                         package_details == json_load(EntryAt(path).content)
                     IN  /\ idx' = j
                         /\ opened' = Append(opened, path)
                         /\ IF package_details.ok
                            THEN /\ genState' = "suspended"
                                 /\ openFiles' = resumed \cup {path}
                                 /\ delivered' = Append(delivered,
                                        <<package_name, package_details.val>>)
                                 /\ last' = "pair"
                            ELSE /\ genState' = "failed"
                                 /\ openFiles' = resumed
                                 /\ last' = "JSONDecodeError"
                                 /\ UNCHANGED delivered
    /\ UNCHANGED <<csvVars, fsVars, stopped>>

\* The consumer stops iterating and keeps the generator object.
StopConsuming ==
    /\ genState \in {"created", "suspended"}
    /\ ~stopped
    /\ stopped' = TRUE
    /\ UNCHANGED <<csvVars, fsVars, genState, idx, openFiles, opened,
                   delivered, last>>

\* generator.close(), also run when the generator object is released:
\* GeneratorExit is raised at the yield and the with block closes the file.
Close ==
    /\ genState \in {"created", "suspended"}
    /\ genState' = "closed"
    /\ openFiles' = IF genState = "suspended"
                    THEN openFiles \ {Paths[idx]} ELSE openFiles
    /\ UNCHANGED <<csvVars, fsVars, idx, opened, delivered, last, stopped>>

Next == Call \/ Advance \/ StopConsuming \/ Close

Spec == Init /\ [][Next]_vars
(***************************************************************************)
(* Properties of the CSV functions and invert_mapping (SpecCsv).           *)
(***************************************************************************)
IsListing == meta.kind = "listing"
IsRows == meta.kind = "rows"
DataRows == SelectSeq(meta.rows, LAMBDA r : r # <<>>)
HasColumn(name) == \E i \in 1..Len(meta.header) : meta.header[i] = name
Column(name) == CHOOSE i \in 1..Len(meta.header) : meta.header[i] = name
Commas(field) == {i \in 1..Len(field) : field[i] = ","}
BothPathsDone ==
    /\ resA.status = "returned"
    /\ resB.status = "returned"
    /\ resInv.status = "returned"
    /\ invArg = resA.val

\* C1 as stated: for every listing written in the two shapes, with the
\* repositories of a package written as further comma separated columns
\* ('p1,r1,r2'), parse_package_to_repos_file followed by invert_mapping
\* returns the same mapping as parse_repo_to_package_file.
C1_AsStated == (IsListing /\ BothPathsDone) => resInv.val = resB.val

\* C1 amended: when the all_repos field is written as one quoted CSV field
\* ('p1,"r1,r2"'), both parsers return, and parse_package_to_repos_file
\* followed by invert_mapping gives the same repo-to-packages mapping as
\* parse_repo_to_package_file on the one-pair-per-line file.
C1_RoundTrip ==
    (IsListing /\ meta.quoted) =>
        /\ resA.status # "raised"
        /\ resB.status # "raised"
        /\ BothPathsDone => resInv.val = resB.val

\* C1 witness: the listing p1 -> [r1, r2], p2 -> [r2] went through both paths.
C1_Witness ==
    /\ IsListing /\ meta.quoted
    /\ meta.listing = <<<<P1, <<R1, R2>>>>, <<P2, <<R2>>>>>>
    /\ BothPathsDone
    /\ resB.val = (R1 :> {P1}) @@ (R2 :> {P1, P2})
    /\ resInv.val = resB.val

\* C2: invert_mapping(M) has as keys exactly the repositories occurring in
\* some M[p], maps each to exactly the packages whose sequence holds it, and
\* has no empty set; duplicates inside one sequence count once.
C2_Inverse ==
    resInv.status = "returned" =>
        LET M == invArg
            inv == resInv.val
        IN  /\ DOMAIN inv =
                UNION {{M[p][i] : i \in 1..Len(M[p])} : p \in DOMAIN M}
            /\ \A r \in DOMAIN inv :
                /\ inv[r] = {p \in DOMAIN M : \E i \in 1..Len(M[p]) : M[p][i] = r}
                /\ inv[r] # {}

\* C2 witness: a mapping with a duplicated repository, a repository shared
\* by two packages and a repository that occurs nowhere has been inverted.
C2_Witness ==
    /\ meta.kind = "mapping"
    /\ invArg = (P1 :> <<R1, R1>>) @@ (P2 :> <<R1>>)
    /\ resInv.status = "returned"
    /\ resInv.val = (R1 :> {P1, P2})

WellFormedA ==
    /\ IsRows
    /\ HasColumn(S_package) /\ HasColumn(S_all_repos)
    /\ \A i \in 1..Len(DataRows) : Len(DataRows[i]) = Len(meta.header)

\* C3: on a well-formed file with columns package and all_repos,
\* parse_package_to_repos_file returns a mapping whose keys are exactly the
\* package values of the data rows and whose value for p is the all_repos
\* field of the last row of p cut at its commas: the parts joined by ','
\* give the field back, no part holds a ',', and there is one part more
\* than commas (so an empty field gives one empty string).
C3_LastRowSplit ==
    (WellFormedA /\ resA.status # "pending") =>
        /\ resA.status = "returned"
        /\ DOMAIN resA.val =
                {DataRows[i][Column(S_package)] : i \in 1..Len(DataRows)}
        /\ \A p \in DOMAIN resA.val :
            LET rowsOfP == {i \in 1..Len(DataRows) :
                                DataRows[i][Column(S_package)] = p}
                lastRow == CHOOSE i \in rowsOfP : \A j \in rowsOfP : j <= i
                field == DataRows[lastRow][Column(S_all_repos)]
                parts == resA.val[p]
            IN  /\ Join(parts, <<",">>) = field
                /\ \A k \in 1..Len(parts) : Commas(parts[k]) = {}
                /\ Len(parts) = Cardinality(Commas(field)) + 1

\* C3 witness: two rows of one package, the later one with a duplicated
\* repository, have been parsed.
C3_Witness ==
    /\ IsRows
    /\ meta.header = <<S_package, S_all_repos>>
    /\ meta.rows = <<<<P1, R1 \o <<",">> \o R2>>, <<P1, R2 \o <<",">> \o R2>>,
                     <<P2, <<>>>>>>
    /\ resA.status = "returned"
    /\ resA.val = (P1 :> <<R2, R2>>) @@ (P2 :> << <<>> >>)

\* C4: on a headerless file whose rows all have at least two columns,
\* parse_repo_to_package_file returns a mapping whose keys are exactly the
\* column-1 values and which maps r to the column-0 values of the rows
\* whose column 1 is r.
C4_RepoToPackages ==
    (IsRows /\ (\A i \in 1..Len(meta.rows) : Len(meta.rows[i]) >= 2)
            /\ resB.status # "pending") =>
        /\ resB.status = "returned"
        /\ DOMAIN resB.val = {meta.rows[i][2] : i \in 1..Len(meta.rows)}
        /\ \A r \in DOMAIN resB.val :
            resB.val[r] = {meta.rows[i][1] :
                            i \in {j \in 1..Len(meta.rows) : meta.rows[j][2] = r}}

\* C4 witness: two packages of one repository and a repeated row were parsed.
C4_Witness ==
    /\ IsRows
    /\ meta.rows = <<<<P1, R1>>, <<P2, R1>>, <<P1, R1>>>>
    /\ resB.status = "returned"
    /\ resB.val = (R1 :> {P1, P2})

\* C9 as stated: parse_package_to_repos_file fails on every input with a
\* data row whose number of columns differs from the header's, and on every
\* input with a data row whose header lacks package or all_repos.
C9_AsStated ==
    (IsRows /\ resA.status # "pending"
        /\ \/ \E i \in 1..Len(DataRows) : Len(DataRows[i]) # Len(meta.header)
           \/ DataRows # <<>>
                /\ ~(HasColumn(S_package) /\ HasColumn(S_all_repos)))
    => resA.status = "raised"

\* C9 amended: parse_package_to_repos_file fails exactly when there is a
\* data row and either the header lacks package or all_repos (a KeyError)
\* or some data row is too short to reach the all_repos column; a row with
\* more columns than the header, or a short row that still reaches
\* all_repos, does not make it fail.
C9_FailsWhenAllReposMissing ==
    (IsRows /\ resA.status # "pending") =>
        LET lacks == ~(HasColumn(S_package) /\ HasColumn(S_all_repos))
            short == \E i \in 1..Len(DataRows) :
                        Len(DataRows[i]) < Column(S_all_repos)
        IN  /\ resA.status = "raised" <=> (DataRows # <<>> /\ (lacks \/ short))
            /\ (DataRows # <<>> /\ lacks) => resA.err = "KeyError"

\* C9 witness: a row with more columns than the header was parsed without
\* a failure, the surplus column being dropped.
C9_Witness ==
    /\ IsRows
    /\ meta.header = <<S_package, S_all_repos>>
    /\ meta.rows = <<<<P1, R1, R2>>>>
    /\ resA.status = "returned"
    /\ resA.val = (P1 :> <<R1>>)

(***************************************************************************)
(* Properties of parse_package_details (Spec).                             *)
(***************************************************************************)
EntryPath(i) == os_path_join(DetailsDir, entries[i].name)
OpenedSet == {opened[i] : i \in 1..Len(opened)}
EndsWithDotJson(name) ==
    \E stem \in {SubSeq(name, 1, k) : k \in 0..Len(name)} : name = stem \o DotJson
StripDotJson(name) == SubSeq(name, 1, Len(name) - Len(DotJson))
PairOf(e) == <<StripDotJson(e.name), json_load(e.content).val>>
\* The entries the claims call regular files with a name ending in '.json'.
JsonFiles == SelectSeq(entries, LAMBDA e : e.kind = "file" /\ EndsWithDotJson(e.name))
\* The entries the generator visits: those of JsonFiles that glob lists.
Visited == SelectSeq(JsonFiles, LAMBDA e : e.name[1] # ".")
BadVisited == {i \in 1..Len(Visited) : ~json_load(Visited[i].content).ok}
FirstBad == CHOOSE i \in BadVisited : \A j \in BadVisited : i <= j

C6_AsStated == genState = "suspended" => openFiles = {}

\* C7: calling the function raises nothing; when a visited file holds
\* invalid JSON the failure is raised at the step that reaches it, with the
\* pairs of all files visited before it delivered and nothing more; the
\* iteration never gets past a bad file, and after the failure no further
\* pair is delivered.
C7_FailureAtTheBadFile ==
    /\ [](/\ genState = "created" => (last = "none" /\ delivered = <<>>)
          /\ genState = "failed" =>
                /\ fsStatus = "ok" /\ BadVisited # {}
                /\ delivered = [i \in 1..(FirstBad - 1) |-> PairOf(Visited[i])]
          /\ last = "JSONDecodeError" => genState = "failed"
          /\ (fsStatus = "ok" /\ BadVisited # {}) =>
                /\ genState # "exhausted"
                /\ Len(delivered) < FirstBad)
    /\ [][genState = "failed" =>
            (genState' = "failed" /\ delivered' = delivered
                /\ last' \in {"JSONDecodeError", "StopIteration"})]_vars

\* C7 witness: the failure was raised after one pair had been delivered and
\* with a valid file still to come.
C7_Witness ==
    /\ fsStatus = "ok"
    /\ Len(Visited) = 3 /\ BadVisited = {2}
    /\ genState = "failed"
    /\ last = "StopIteration"
    /\ Len(delivered) = 1

C10_LazyOpenAtMostOnce ==
    /\ [](/\ genState \in {"uncalled", "created"} => opened = <<>>
          /\ \A i, j \in 1..Len(opened) : opened[i] = opened[j] => i = j
          /\ genState = "suspended" =>
                \E k \in 1..Len(entries) :
                    /\ entries[k].name = delivered[Len(delivered)][1] \o DotJson
                    /\ \A i \in (k + 1)..Len(entries) : EntryPath(i) \notin OpenedSet)
    /\ [][opened' # opened =>
            /\ genState \in {"created", "suspended"}
            /\ \E i \in 1..Len(entries) :
                /\ opened' = Append(opened, EntryPath(i))
                /\ \/ last' = "JSONDecodeError" /\ delivered' = delivered
                   \/ last' = "pair"
                        /\ delivered' = Append(delivered, PairOf(entries[i]))]_vars

\* C10 witness: the consumer stopped after the first of three files; one
\* file has been opened and the two later ones have not.
C10_Witness ==
    /\ fsStatus = "ok"
    /\ Len(Visited) = 3
    /\ stopped
    /\ Len(delivered) = 1
    /\ opened = <<EntryPath(1)>>
====
